---- MODULE Spec2Model ----
(***************************************************************************)
(* Model of the HMPI dashboard: the scoring functions and data-access      *)
(* functions of utils/data.ts and the ProjectAnalyticsPage component       *)
(* (load protocol and chart aggregation).                                  *)
(*                                                                         *)
(* JavaScript numbers are modelled as records [k, s, n, d]:                *)
(*   k = "fin": the finite value s * n / d  (s in {1,-1}, n >= 0, d > 0,   *)
(*              n/d in lowest terms; n = 0 with s = -1 is negative zero)   *)
(*   k = "inf": s * Infinity                                               *)
(*   k = "nan": NaN                                                        *)
(* Finite arithmetic is exact rational arithmetic.  The inputs drawn below *)
(* are small integers with |Ii| < 32, for which Si*Mi*10000/Ii is never    *)
(* within 1/64 of a half-integer unless it is exactly representable, so    *)
(* Math.round(hmpi * 100) agrees with the IEEE-754 double computation.     *)
(***************************************************************************)
EXTENDS Integers, Sequences, FiniteSets, TLC

VARIABLES
    \* ---- scoring calls (calculateHMPI / getRiskLevel applied to an input)
    sPc,              \* "start" | "calculated" | "classified"
    sArg,             \* the sample passed to calculateHMPI
    sHmpi,            \* the index: calculateHMPI's result or a direct argument
    sRisk,            \* getRiskLevel's result
    \* ---- ProjectAnalyticsPage component
    projectId,        \* params.projectId
    mounted,          \* the component is mounted
    effectPending,    \* useEffect([projectId]) is scheduled and has not run
    project,          \* useState(null)
    projectSamples,   \* useState([])
    loading,          \* useState(true)
    loads,            \* the loadData() invocations started so far
    inflight,         \* requests issued to the store and not yet answered
    lastFetch,        \* last fetchAlerts / fetchPolicies call made by another view
    \* ---- render output (chart data computed after the early returns)
    rendered,
    riskChartData,
    metalChartData,
    timeSeriesData,
    \* ---- alerts table of the store and acknowledgeAlert calls
    alerts,
    ackCalls

scoreVars == <<sPc, sArg, sHmpi, sRisk>>
viewVars  == <<projectId, mounted, effectPending, project, projectSamples,
               loading, loads, inflight, lastFetch>>
chartVars == <<rendered, riskChartData, metalChartData, timeSeriesData>>
alertVars == <<alerts, ackCalls>>
vars == <<scoreVars, viewVars, chartVars, alertVars>>

-----------------------------------------------------------------------------
(* JavaScript numbers *)

RECURSIVE GCD(_, _)
GCD(a, b) == IF b = 0 THEN a ELSE GCD(b, a % b)

NaN == [k |-> "nan", s |-> 1, n |-> 0, d |-> 1]
Inf(s) == [k |-> "inf", s |-> s, n |-> 0, d |-> 1]
\* the finite number s * n / d in lowest terms
Fin(s, n, d) ==
    LET g == GCD(n, d)
    IN [k |-> "fin", s |-> s, n |-> n \div g, d |-> d \div g]
Num(i) == IF i < 0 THEN Fin(-1, -i, 1) ELSE Fin(1, i, 1)
NegZero == Fin(-1, 0, 1)
IsZero(a) == a.k = "fin" /\ a.n = 0
IsFinite(a) == a.k = "fin"

\* a / b
JsDiv(a, b) ==
    IF a.k = "nan" \/ b.k = "nan" THEN NaN
    ELSE IF a.k = "inf"
         THEN IF b.k = "inf" THEN NaN ELSE Inf(a.s * b.s)
    ELSE IF b.k = "inf" THEN Fin(a.s * b.s, 0, 1)
    ELSE IF b.n = 0
         THEN IF a.n = 0 THEN NaN ELSE Inf(a.s * b.s)
    ELSE Fin(a.s * b.s, a.n * b.d, a.d * b.n)

\* a * b
JsMul(a, b) ==
    IF a.k = "nan" \/ b.k = "nan" THEN NaN
    ELSE IF a.k = "inf" \/ b.k = "inf"
         THEN IF IsZero(a) \/ IsZero(b) THEN NaN ELSE Inf(a.s * b.s)
    ELSE Fin(a.s * b.s, a.n * b.n, a.d * b.d)

\* a + b
JsAdd(a, b) ==
    IF a.k = "nan" \/ b.k = "nan" THEN NaN
    ELSE IF a.k = "inf"
         THEN IF b.k = "inf" /\ b.s # a.s THEN NaN ELSE a
    ELSE IF b.k = "inf" THEN b
    ELSE LET v == a.s * a.n * b.d + b.s * b.n * a.d
         IN IF v = 0
            THEN Fin(IF a.s = -1 /\ b.s = -1 THEN -1 ELSE 1, 0, 1)
            ELSE IF v < 0 THEN Fin(-1, -v, a.d * b.d) ELSE Fin(1, v, a.d * b.d)

\* a >= b: false whenever an operand is NaN
JsGe(a, b) ==
    IF a.k = "nan" \/ b.k = "nan" THEN FALSE
    ELSE IF a.k = "inf" THEN a.s = 1 \/ (b.k = "inf" /\ b.s = -1)
    ELSE IF b.k = "inf" THEN b.s = -1
    ELSE a.s * a.n * b.d >= b.s * b.n * a.d

\* Math.round: the integer nearest to a, halves towards +Infinity
MathRound(a) ==
    IF a.k # "fin" THEN a
    ELSE IF a.s = 1 THEN Fin(1, (2 * a.n + a.d) \div (2 * a.d), 1)
    ELSE IF 2 * a.n <= a.d THEN NegZero
    ELSE Fin(-1, (2 * a.n - a.d + 2 * a.d - 1) \div (2 * a.d), 1)

-----------------------------------------------------------------------------
(* utils/data.ts: scoring *)

\* calculateHMPI, with the mutant that drops the division's zero case
calculateHMPI_guarded(sample) ==
    IF IsZero(sample.Ii) THEN Num(0)
    ELSE LET hmpi == JsMul(JsMul(JsDiv(sample.Si, sample.Ii), sample.Mi), Num(100))
         IN JsDiv(MathRound(JsMul(hmpi, Num(100))), Num(100))

calculateHMPI(sample) ==
    LET hmpi == JsMul(JsMul(JsDiv(sample.Si, sample.Ii), sample.Mi), Num(100))
    IN JsDiv(MathRound(JsMul(hmpi, Num(100))), Num(100))

Risk(level, color) == [level |-> level, color |-> color]

\* mutant: exclusive lower bounds
getRiskLevel_exclusive(hmpi) ==
    IF JsGe(hmpi, Num(100)) /\ hmpi # Num(100) THEN Risk("Very High Risk", "#DC2626")
    ELSE IF JsGe(hmpi, Num(50)) /\ hmpi # Num(50) THEN Risk("High Risk", "#EA580C")
    ELSE IF JsGe(hmpi, Num(25)) /\ hmpi # Num(25) THEN Risk("Moderate Risk", "#D97706")
    ELSE IF JsGe(hmpi, Num(10)) /\ hmpi # Num(10) THEN Risk("Low Risk", "#65A30D")
    ELSE Risk("Safe", "#059669")

getRiskLevel(hmpi) ==
    IF JsGe(hmpi, Num(100)) THEN Risk("Very High Risk", "#DC2626")
    ELSE IF JsGe(hmpi, Num(50)) THEN Risk("High Risk", "#EA580C")
    ELSE IF JsGe(hmpi, Num(25)) THEN Risk("Moderate Risk", "#D97706")
    ELSE IF JsGe(hmpi, Num(10)) THEN Risk("Low Risk", "#65A30D")
    ELSE Risk("Safe", "#059669")

-----------------------------------------------------------------------------
(* Samples.  A date string is [y, m, d, t]: "YYYY-MM-DD" followed by t, which *)
(* is empty or the UTC midnight suffix "T00:00:00.000Z".                      *)

Date(y, m, d, t) == [y |-> y, m |-> m, d |-> d, t |-> t]

\* days from 1970-01-01 to y-m-d in the proleptic Gregorian calendar
DaysFromCivil(y, m, d) ==
    LET yy  == IF m <= 2 THEN y - 1 ELSE y
        era == yy \div 400
        yoe == yy - era * 400
        mp  == (m + 9) % 12
        doy == (153 * mp + 2) \div 5 + d - 1
        doe == yoe * 365 + yoe \div 4 - yoe \div 100 + doy
    IN era * 146097 + doe - 719468

\* new Date(date).getTime(), counted in days (milliseconds / 86400000): a
\* date-only ISO string is parsed as UTC midnight, as is the "T00:00:00.000Z" form
DateGetTime(date) == DaysFromCivil(date.y, date.m, date.d)

Sample(id, pid, metal, si, ii, mi, date) ==
    [id |-> id, projectId |-> pid, metal |-> metal,
     Si |-> si, Ii |-> ii, Mi |-> mi, date |-> date]

NoDate == Date(1970, 1, 1, "")
NoSample == Sample("", "", "", NaN, NaN, NaN, NoDate)
NoRisk == Risk("", "")

-----------------------------------------------------------------------------
(* Scoring calls: calculateHMPI on a sample, getRiskLevel on an index *)

MaxSi == 3
MaxIi == 8
MaxMi == 2
MaxIndex == 101
MinIndex == 6

Ints(m) == {Num(i) : i \in (-m)..m}
ScoreSamples ==
    {Sample("s", "p1", "Lead", si, ii, mi, NoDate) :
        si \in Ints(MaxSi), ii \in Ints(MaxIi) \cup {NegZero}, mi \in Ints(MaxMi)}
\* indices with two decimals, and the non-finite values
IndexInputs ==
    {Fin(1, h, 100) : h \in 0..(MaxIndex * 100)}
        \cup {Fin(-1, h, 100) : h \in 0..(MinIndex * 100)}
        \cup {NaN, Inf(1), Inf(-1)}

ScoreInit ==
    /\ sRisk = NoRisk
    /\ \/ sPc = "start" /\ sArg \in ScoreSamples /\ sHmpi = NaN
       \/ sPc = "calculated" /\ sArg = NoSample /\ sHmpi \in IndexInputs

Calculate ==
    /\ sPc = "start"
    /\ sHmpi' = calculateHMPI(sArg)
    /\ sPc' = "calculated"
    /\ UNCHANGED <<sArg, sRisk>>
    /\ UNCHANGED <<viewVars, chartVars, alertVars>>

Classify ==
    /\ sPc = "calculated"
    /\ sRisk' = getRiskLevel(sHmpi)
    /\ sPc' = "classified"
    /\ UNCHANGED <<sArg, sHmpi>>
    /\ UNCHANGED <<viewVars, chartVars, alertVars>>

-----------------------------------------------------------------------------
(* ProjectAnalyticsPage: chart data computed by a render *)

Null == [kind |-> "null", id |-> "", name |-> ""]
Undefined == [kind |-> "undefined", id |-> "", name |-> ""]
Project(id, name) == [kind |-> "project", id |-> id, name |-> name]

\* projectSamples.map(sample => ({...sample, hmpi, riskLevel}))
SamplesWithHMPI(ps) ==
    [i \in 1..Len(ps) |->
        [sample |-> ps[i],
         hmpi |-> calculateHMPI(ps[i]),
         riskLevel |-> getRiskLevel(calculateHMPI(ps[i]))]]

\* An object used as a dictionary: its entries in insertion order.
DictHas(acc, key) == \E i \in 1..Len(acc) : acc[i].key = key
DictGet(acc, key) == acc[CHOOSE i \in 1..Len(acc) : acc[i].key = key].value
\* (acc[key] || 0)
DictGetOr0(acc, key) == IF DictHas(acc, key) THEN DictGet(acc, key) ELSE 0
\* acc[key] = (acc[key] || 0) + 1
DictIncr(acc, key) ==
    IF DictHas(acc, key)
    THEN [i \in 1..Len(acc) |->
            IF acc[i].key = key THEN [acc[i] EXCEPT !.value = @ + 1] ELSE acc[i]]
    ELSE Append(acc, [key |-> key, value |-> 1])

\* mutant: acc[level] = 1, the running count is dropped
RECURSIVE riskDistribution_reset(_, _)
riskDistribution_reset(sw, n) ==
    IF n = 0 THEN <<>>
    ELSE LET acc == riskDistribution_reset(sw, n - 1)
             level == sw[n].riskLevel.level
         IN IF DictHas(acc, level) THEN acc ELSE Append(acc, [key |-> level, value |-> 1])

\* samplesWithHMPI.reduce(...) over the first n samples
RECURSIVE riskDistribution(_, _)
riskDistribution(sw, n) ==
    IF n = 0 THEN <<>>
    ELSE DictIncr(riskDistribution(sw, n - 1), sw[n].riskLevel.level)

riskLevels == <<"Safe", "Low Risk", "Moderate Risk", "High Risk", "Very High Risk">>

\* mutant: find() without the test on the level
FindColor_anyLevel(sw, level) ==
    IF sw # <<>> THEN sw[1].riskLevel.color ELSE "#666"

\* samplesWithHMPI.find(s => s.riskLevel.level === level)?.riskLevel.color || '#666'
FindColor(sw, level) ==
    IF \E i \in 1..Len(sw) : sw[i].riskLevel.level = level
    THEN LET i == CHOOSE i \in 1..Len(sw) :
                    /\ sw[i].riskLevel.level = level
                    /\ \A j \in 1..(i - 1) : sw[j].riskLevel.level # level
         IN sw[i].riskLevel.color
    ELSE "#666"

riskChartData_of(sw) ==
    [i \in 1..Len(riskLevels) |->
        [name |-> riskLevels[i],
         value |-> DictGetOr0(riskDistribution(sw, Len(sw)), riskLevels[i]),
         color |-> FindColor(sw, riskLevels[i])]]

RECURSIVE metalDistribution(_, _)
metalDistribution(sw, n) ==
    IF n = 0 THEN <<>>
    ELSE DictIncr(metalDistribution(sw, n - 1), sw[n].sample.metal)

\* .reduce((sum, s) => sum + s.hmpi, 0) over a list
RECURSIVE SumHmpi(_, _)
SumHmpi(list, n) ==
    IF n = 0 THEN Num(0) ELSE JsAdd(SumHmpi(list, n - 1), list[n].hmpi)

FilterMetal(sw, metal) == SelectSeq(sw, LAMBDA s : s.sample.metal = metal)

\* mutant: the mean taken over all samples, samplesWithHMPI.length
metalChartData_overAll(sw) ==
    LET dist == metalDistribution(sw, Len(sw))
    IN [i \in 1..Len(dist) |->
        [name |-> dist[i].key,
         count |-> dist[i].value,
         avgHMPI |-> JsDiv(SumHmpi(FilterMetal(sw, dist[i].key),
                                   Len(FilterMetal(sw, dist[i].key))),
                           Num(Len(sw)))]]

\* Object.entries(metalDistribution).map(([metal, count]) => ...)
metalChartData_of(sw) ==
    LET dist == metalDistribution(sw, Len(sw))
    IN [i \in 1..Len(dist) |->
        [name |-> dist[i].key,
         count |-> dist[i].value,
         avgHMPI |-> JsDiv(SumHmpi(FilterMetal(sw, dist[i].key),
                                   Len(FilterMetal(sw, dist[i].key))),
                           Num(Len(FilterMetal(sw, dist[i].key))))]]

\* (a, b) => new Date(a.date).getTime() - new Date(b.date).getTime()
CompareDate(a, b) == DateGetTime(a.sample.date) - DateGetTime(b.sample.date)

\* mutant: a sort that is not stable, x goes before the elements it equals
RECURSIVE InsertSorted_unstable(_, _)
InsertSorted_unstable(sorted, x) ==
    IF sorted = <<>> THEN <<x>>
    ELSE IF CompareDate(x, sorted[Len(sorted)]) > 0 THEN Append(sorted, x)
    ELSE Append(InsertSorted_unstable(SubSeq(sorted, 1, Len(sorted) - 1), x),
                sorted[Len(sorted)])

\* Array.prototype.sort is a stable sort (ECMAScript 2019): modelled as an
\* insertion sort that places x behind every element it does not precede.
RECURSIVE InsertSorted(_, _)
InsertSorted(sorted, x) ==
    IF sorted = <<>> THEN <<x>>
    ELSE IF CompareDate(x, sorted[Len(sorted)]) >= 0 THEN Append(sorted, x)
    ELSE Append(InsertSorted(SubSeq(sorted, 1, Len(sorted) - 1), x), sorted[Len(sorted)])

RECURSIVE SortByDate(_, _)
SortByDate(sw, n) ==
    IF n = 0 THEN <<>> ELSE InsertSorted(SortByDate(sw, n - 1), sw[n])

timeSeriesData_of(sw) ==
    LET sorted == SortByDate(sw, Len(sw))
    IN [i \in 1..Len(sorted) |->
        [date |-> sorted[i].sample.date, hmpi |-> sorted[i].hmpi]]

\* The render of a loaded view: past both early returns, the chart data
Render ==
    /\ mounted
    /\ ~loading
    /\ project.kind = "project"
    /\ ~rendered
    /\ LET sw == SamplesWithHMPI(projectSamples)
       IN /\ riskChartData' = riskChartData_of(sw)
          /\ metalChartData' = metalChartData_of(sw)
          /\ timeSeriesData' = timeSeriesData_of(sw)
    /\ rendered' = TRUE
    /\ UNCHANGED <<scoreVars, viewVars, alertVars>>

-----------------------------------------------------------------------------
(* utils/data.ts: fetch-all functions.  The store answers a select with     *)
(* {data, error}: an error object and null data, or no error and the rows.  *)
(* A JavaScript value that is an array or null is [null, rows].             *)

Array(rows) == [null |-> FALSE, rows |-> rows]
NullValue == [null |-> TRUE, rows |-> <<>>]
Response(error, data) == [error |-> error, data |-> data]
ErrorResponse == Response(TRUE, NullValue)
Responses(rows) == {ErrorResponse, Response(FALSE, Array(rows))}

\* mutant: the error branch is missing, data (null) is returned
fetchProjects_noErrorBranch(resp) == resp.data

fetchProjects(resp) == IF resp.error THEN Array(<<>>) ELSE resp.data

fetchSamples(resp) == IF resp.error THEN Array(<<>>) ELSE resp.data

fetchAlerts(resp) == IF resp.error THEN Array(<<>>) ELSE resp.data

fetchPolicies(resp) == IF resp.error THEN Array(<<>>) ELSE resp.data

-----------------------------------------------------------------------------
(* ProjectAnalyticsPage: the effect and loadData *)

MaxLoads == 2

ProjectIds == {"p1", "p2", "p3", ""}
StoreProjects == <<Project("p1", "Ganga Basin"), Project("p2", "Yamuna Basin")>>
StoreSamples ==
    <<Sample("s1", "p1", "Lead", Num(1), Num(4), Num(1), Date(2025, 1, 20, "")),
      Sample("s2", "p2", "Arsenic", Num(1), Num(2), Num(1), Date(2025, 2, 12, "")),
      Sample("s3", "p1", "Lead", Num(1), Num(0), Num(1), Date(2025, 1, 1, ""))>>
StorePolicies == <<[id |-> "pol1", metal |-> "Lead", threshold |-> 50]>>

Alert(id, pid, sid, ack) ==
    [id |-> id, projectId |-> pid, sampleId |-> sid, acknowledged |-> ack]
AlertIds == {"a1", "a2"}
\* the alerts table: its rows by id
AlertTable(ack1, ack2) ==
    [a \in AlertIds |->
        IF a = "a1" THEN Alert("a1", "p1", "s1", ack1) ELSE Alert("a2", "p2", "s2", ack2)]
AlertRows(table) == <<table["a1"], table["a2"]>>

Request(i, table) == [load |-> i, table |-> table]
Load(pid, pc, projResp, allProjects, sampResp, allSamples) ==
    [pid |-> pid, pc |-> pc, projResp |-> projResp, allProjects |-> allProjects,
     sampResp |-> sampResp, allSamples |-> allSamples]
NoResponse == Response(FALSE, NullValue)
NoFetch == [table |-> "", resp |-> NoResponse, result |-> NullValue]

\* allProjects.find(p => p.id === projectId)
FindProject(rows, pid) ==
    IF \E i \in 1..Len(rows) : rows[i].id = pid
    THEN rows[CHOOSE i \in 1..Len(rows) :
                /\ rows[i].id = pid
                /\ \A j \in 1..(i - 1) : rows[j].id # pid]
    ELSE Undefined

\* allSamples.filter(s => s.projectId === projectId)
FilterSamples(rows, pid) == SelectSeq(rows, LAMBDA s : s.projectId = pid)

\* what the component returns: the spinner, "Project Not Found", or the charts
Screen ==
    IF loading THEN "spinner"
    ELSE IF project.kind # "project" THEN "notFound"
    ELSE "charts"

\* mutant: Promise.all([fetchProjects(), fetchSamples()])
RequestsOnStart_parallel(i) == {Request(i, "projects"), Request(i, "samples")}

\* the requests loadData has issued when it first suspends
RequestsOnStart(i) == {Request(i, "projects")}

\* mutant: a load whose projectId is no longer current drops its result
Applies_ignoreStale(ld) == mounted /\ ld.pid = projectId

\* whether the state updates of a finishing load take effect: React drops
\* updates to an unmounted component, nothing else stops them
Applies(ld) == mounted

ViewInit ==
    /\ projectId \in ProjectIds
    /\ mounted = TRUE
    /\ effectPending = TRUE
    /\ project = Null
    /\ projectSamples = <<>>
    /\ loading = TRUE
    /\ loads = <<>>
    /\ inflight = {}
    /\ lastFetch = NoFetch

\* useEffect(() => { ...; if (projectId) loadData(); }, [projectId]) up to the
\* first await of loadData
RunEffect ==
    /\ mounted
    /\ effectPending
    /\ effectPending' = FALSE
    /\ \/ /\ projectId # ""
          /\ loading' = TRUE
          /\ loads' = Append(loads, Load(projectId, "awaitProjects", NoResponse,
                                         NullValue, NoResponse, NullValue))
          /\ inflight' = inflight \cup RequestsOnStart(Len(loads) + 1)
       \/ /\ projectId = ""
          /\ UNCHANGED <<loading, loads, inflight>>
    /\ UNCHANGED <<projectId, mounted, project, projectSamples, lastFetch>>
    /\ UNCHANGED <<scoreVars, chartVars, alertVars>>

\* the route parameter changes: the component re-renders and the effect is due
ChangeProjectId ==
    /\ mounted
    /\ ~effectPending
    /\ Len(loads) < MaxLoads
    /\ \E pid \in ProjectIds \ {projectId} : projectId' = pid
    /\ effectPending' = TRUE
    /\ UNCHANGED <<mounted, project, projectSamples, loading, loads, inflight, lastFetch>>
    /\ UNCHANGED <<scoreVars, chartVars, alertVars>>

\* the component unmounts; the effect has no cleanup function
Unmount ==
    /\ mounted
    /\ mounted' = FALSE
    /\ effectPending' = FALSE
    /\ UNCHANGED <<projectId, project, projectSamples, loading, loads, inflight, lastFetch>>
    /\ UNCHANGED <<scoreVars, chartVars, alertVars>>

\* the store answers the projects select of load i: fetchProjects returns and
\* loadData goes on to call fetchSamples
ProjectsResponse ==
    \E i \in DOMAIN loads, resp \in Responses(StoreProjects) :
        /\ loads[i].pc = "awaitProjects"
        /\ Request(i, "projects") \in inflight
        /\ loads' = [loads EXCEPT ![i].pc = "awaitSamples",
                                  ![i].projResp = resp,
                                  ![i].allProjects = fetchProjects(resp)]
        /\ inflight' = (inflight \ {Request(i, "projects")}) \cup {Request(i, "samples")}
        /\ UNCHANGED <<projectId, mounted, effectPending, project, projectSamples,
                       loading, lastFetch>>
        /\ UNCHANGED <<scoreVars, chartVars, alertVars>>

\* the store answers the samples select of load i: fetchSamples returns and
\* loadData runs to its end (find, filter, setProject, setProjectSamples,
\* finally setLoading(false))
SamplesResponse ==
    \E i \in DOMAIN loads, resp \in Responses(StoreSamples) :
        /\ loads[i].pc = "awaitSamples"
        /\ Request(i, "samples") \in inflight
        /\ loads' = [loads EXCEPT ![i].pc = "done",
                                  ![i].sampResp = resp,
                                  ![i].allSamples = fetchSamples(resp)]
        /\ inflight' = inflight \ {Request(i, "samples")}
        /\ IF Applies(loads[i])
           THEN /\ project' = FindProject(loads[i].allProjects.rows, loads[i].pid)
                /\ projectSamples' = FilterSamples(fetchSamples(resp).rows, loads[i].pid)
                /\ loading' = FALSE
           ELSE UNCHANGED <<project, projectSamples, loading>>
        /\ UNCHANGED <<projectId, mounted, effectPending, lastFetch>>
        /\ UNCHANGED <<scoreVars, chartVars, alertVars>>

\* another view calls fetchAlerts()
FetchAlertsCall ==
    \E resp \in Responses(AlertRows(alerts)) :
        /\ lastFetch' = [table |-> "alerts", resp |-> resp, result |-> fetchAlerts(resp)]
        /\ UNCHANGED <<projectId, mounted, effectPending, project, projectSamples,
                       loading, loads, inflight>>
        /\ UNCHANGED <<scoreVars, chartVars, alertVars>>

\* another view calls fetchPolicies()
FetchPoliciesCall ==
    \E resp \in Responses(StorePolicies) :
        /\ lastFetch' = [table |-> "policies", resp |-> resp, result |-> fetchPolicies(resp)]
        /\ UNCHANGED <<projectId, mounted, effectPending, project, projectSamples,
                       loading, loads, inflight>>
        /\ UNCHANGED <<scoreVars, chartVars, alertVars>>

-----------------------------------------------------------------------------
(* utils/data.ts: acknowledgeAlert against the alerts table of the store *)

MaxAckCalls == 3

AckIds == AlertIds \cup {"a9"}
AckCall(id, pc, resp) == [alertId |-> id, pc |-> pc, resp |-> resp]

\* mutant: the update without its .eq('id', alertId) filter
UpdateAcknowledged_noFilter(table, alertId) ==
    [a \in DOMAIN table |-> [table[a] EXCEPT !.acknowledged = TRUE]]

\* .update({ acknowledged: true }).eq('id', alertId), applied by the store
UpdateAcknowledged(table, alertId) ==
    [a \in DOMAIN table |->
        IF table[a].id = alertId THEN [table[a] EXCEPT !.acknowledged = TRUE]
        ELSE table[a]]

\* .select() after the update: the rows the update matched
UpdatedRows(table, alertId) ==
    SelectSeq(AlertRows(table), LAMBDA r : r.id = alertId)

AlertsInit ==
    /\ alerts \in {AlertTable(b1, b2) : b1 \in BOOLEAN, b2 \in BOOLEAN}
    /\ ackCalls = <<>>

\* acknowledgeAlert(alertId) is called: the update request goes to the store
AcknowledgeAlert ==
    /\ Len(ackCalls) < MaxAckCalls
    /\ \E id \in AckIds : ackCalls' = Append(ackCalls, AckCall(id, "sent", NoResponse))
    /\ UNCHANGED alerts
    /\ UNCHANGED <<scoreVars, viewVars, chartVars>>

\* the store handles the request of call c: it fails, or applies the update
StoreUpdate ==
    \E c \in DOMAIN ackCalls :
        /\ ackCalls[c].pc = "sent"
        /\ \/ /\ ackCalls' = [ackCalls EXCEPT ![c].pc = "answered",
                                              ![c].resp = ErrorResponse]
              /\ UNCHANGED alerts
           \/ /\ alerts' = UpdateAcknowledged(alerts, ackCalls[c].alertId)
              /\ ackCalls' = [ackCalls EXCEPT
                    ![c].pc = "answered",
                    ![c].resp = Response(FALSE,
                        Array(UpdatedRows(alerts', ackCalls[c].alertId)))]
        /\ UNCHANGED <<scoreVars, viewVars, chartVars>>

\* the answer reaches call c: it throws the error or returns the data
AcknowledgeReturn ==
    \E c \in DOMAIN ackCalls :
        /\ ackCalls[c].pc = "answered"
        /\ ackCalls' = [ackCalls EXCEPT
                ![c].pc = IF ackCalls[c].resp.error THEN "threw" ELSE "returned"]
        /\ UNCHANGED alerts
        /\ UNCHANGED <<scoreVars, viewVars, chartVars>>

-----------------------------------------------------------------------------
(* Inputs of a render: the samples held after a load of project p1 *)

MaxSamples == 3

ChartDate == Date(2025, 1, 20, "")
\* (Si, Ii, Mi) with indices 0, 12.5, 25, 50, 100, -100, +Infinity and NaN
ScoreTriples ==
    {<<0, 1, 1>>, <<1, 8, 1>>, <<1, 4, 1>>, <<1, 2, 1>>, <<1, 1, 1>>,
     <<-1, 1, 1>>, <<1, 0, 1>>, <<0, 0, 1>>}
RiskSamples ==
    {Sample("s", "p1", "Lead", Num(t[1]), Num(t[2]), Num(t[3]), ChartDate) :
        t \in ScoreTriples}
\* three metals with indices 100, 50, 33.33 and +Infinity
MetalSamples ==
    {Sample("s", "p1", metal, Num(1), Num(ii), Num(1), ChartDate) :
        metal \in {"Lead", "Arsenic", "Mercury"}, ii \in {0, 1, 2, 3}}
\* four date strings, two of them the same instant, with indices 100, 50, 25
ChartDates ==
    {Date(2025, 1, 1, ""), Date(2025, 1, 1, "T00:00:00.000Z"),
     Date(2024, 12, 31, ""), Date(2025, 2, 1, "")}
DateSamples ==
    {Sample("s", "p1", "Lead", Num(1), Num(ii), Num(1), date) :
        date \in ChartDates, ii \in {1, 2, 4}}

ListsOf(S) == UNION {[1..n -> S] : n \in 0..MaxSamples}
ChartInputs == ListsOf(RiskSamples) \cup ListsOf(MetalSamples) \cup ListsOf(DateSamples)

-----------------------------------------------------------------------------
(* Specifications *)

ScoreIdle == sPc = "idle" /\ sArg = NoSample /\ sHmpi = NaN /\ sRisk = NoRisk
ChartIdle ==
    /\ rendered = FALSE
    /\ riskChartData = <<>>
    /\ metalChartData = <<>>
    /\ timeSeriesData = <<>>
AlertsIdle == alerts = AlertTable(FALSE, FALSE) /\ ackCalls = <<>>
ViewIdle == ViewInit /\ projectId = "p1"

\* the view after loadData for p1 has finished with the samples ps
ViewLoaded(ps) ==
    /\ projectId = "p1"
    /\ mounted = TRUE
    /\ effectPending = FALSE
    /\ project = FindProject(StoreProjects, "p1")
    /\ projectSamples = ps
    /\ loading = FALSE
    /\ loads = <<Load("p1", "done", Response(FALSE, Array(StoreProjects)),
                      Array(StoreProjects), Response(FALSE, Array(ps)), Array(ps))>>
    /\ inflight = {}
    /\ lastFetch = NoFetch

\* the analytics view: effect, loads, and the fetch-all functions
Init == ViewInit /\ ScoreIdle /\ ChartIdle /\ AlertsIdle
Next ==
    \/ RunEffect
    \/ ChangeProjectId
    \/ Unmount
    \/ ProjectsResponse
    \/ SamplesResponse
    \/ FetchAlertsCall
    \/ FetchPoliciesCall
Spec == Init /\ [][Next]_vars

\* the scoring functions applied to bounded inputs
SpecScoreInit == ScoreInit /\ ViewIdle /\ ChartIdle /\ AlertsIdle
SpecScoreNext == Calculate \/ Classify
SpecScore == SpecScoreInit /\ [][SpecScoreNext]_vars

\* a render of the loaded view over bounded sample lists
SpecChartsInit ==
    /\ \E ps \in ChartInputs : ViewLoaded(ps)
    /\ ScoreIdle /\ ChartIdle /\ AlertsIdle
SpecChartsNext == Render
SpecCharts == SpecChartsInit /\ [][SpecChartsNext]_vars

\* acknowledgeAlert calls racing on the alerts table
SpecAlertsInit == AlertsInit /\ ViewIdle /\ ScoreIdle /\ ChartIdle
SpecAlertsNext == AcknowledgeAlert \/ StoreUpdate \/ AcknowledgeReturn
SpecAlerts == SpecAlertsInit /\ [][SpecAlertsNext]_vars

-----------------------------------------------------------------------------
(* Properties *)

\* x >= t for an integer threshold t, by the value of x: +Infinity is above
\* every threshold, NaN and -Infinity above none
AtLeast(x, t) ==
    \/ x.k = "inf" /\ x.s = 1
    \/ x.k = "fin" /\ x.s * x.n >= t * x.d

\* the colour the scoring table pairs with a level
CanonicalColor(level) ==
    CASE level = "Very High Risk" -> "#DC2626"
      [] level = "High Risk" -> "#EA580C"
      [] level = "Moderate Risk" -> "#D97706"
      [] level = "Low Risk" -> "#65A30D"
      [] level = "Safe" -> "#059669"

\* C1: getRiskLevel is total and classifies by inclusive lower bounds: Very High
\* Risk iff x >= 100, High Risk iff 50 <= x < 100, Moderate Risk iff 25 <= x < 50,
\* Low Risk iff 10 <= x < 25, Safe otherwise (0, negatives, NaN); the colour is
\* the one paired with the level.
C1_RiskLevelInclusiveLowerBounds ==
    sPc = "classified" =>
        /\ sRisk.level \in {riskLevels[i] : i \in 1..Len(riskLevels)}
        /\ sRisk.level = "Very High Risk" <=> AtLeast(sHmpi, 100)
        /\ sRisk.level = "High Risk" <=> AtLeast(sHmpi, 50) /\ ~AtLeast(sHmpi, 100)
        /\ sRisk.level = "Moderate Risk" <=> AtLeast(sHmpi, 25) /\ ~AtLeast(sHmpi, 50)
        /\ sRisk.level = "Low Risk" <=> AtLeast(sHmpi, 10) /\ ~AtLeast(sHmpi, 25)
        /\ sRisk.level = "Safe" <=> ~AtLeast(sHmpi, 10)
        /\ sRisk.color = CanonicalColor(sRisk.level)

\* the boundary value 100 has been classified, as Very High Risk
C1_Witness ==
    sPc = "classified" /\ sHmpi = Num(100) /\ sRisk.level = "Very High Risk"

\* C2 as stated: for every sample with Ii = 0, calculateHMPI is non-finite and
\* getRiskLevel of it is Safe.
C2_ZeroIiIsSafe ==
    (sPc = "classified" /\ sArg # NoSample /\ IsZero(sArg.Ii)) =>
        ~IsFinite(sHmpi) /\ sRisk.level = "Safe"

\* C2 amended: for every sample with Ii = 0, calculateHMPI is non-finite: NaN
\* when Si or Mi is zero, otherwise an infinity with the sign of Si * Ii * Mi;
\* getRiskLevel gives Very High Risk for +Infinity (it passes >= 100) and Safe
\* for NaN and -Infinity.
C2_ZeroIiNonFiniteBySign ==
    (sPc = "classified" /\ sArg # NoSample /\ IsZero(sArg.Ii)) =>
        /\ ~IsFinite(sHmpi)
        /\ sHmpi = IF IsZero(sArg.Si) \/ IsZero(sArg.Mi) THEN NaN
                   ELSE Inf(sArg.Si.s * sArg.Ii.s * sArg.Mi.s)
        /\ sRisk.level = IF sHmpi = Inf(1) THEN "Very High Risk" ELSE "Safe"

\* a sample with positive Si and Mi and Ii = 0 has been classified Very High Risk
C2_Witness ==
    /\ sPc = "classified"
    /\ sArg # NoSample
    /\ sArg.Ii = Num(0) /\ sArg.Si = Num(1) /\ sArg.Mi = Num(1)
    /\ sHmpi = Inf(1)
    /\ sRisk.level = "Very High Risk"

LevelOf(sample) == getRiskLevel(calculateHMPI(sample)).level
CountLevel(ps, level) == Cardinality({i \in 1..Len(ps) : LevelOf(ps[i]) = level})

\* C3: the risk chart data has exactly the five levels in the fixed order; each
\* value is the number of samples of that level, and the values sum to the
\* number of samples.
C3_RiskChartCounts ==
    rendered =>
        /\ Len(riskChartData) = 5
        /\ [i \in 1..5 |-> riskChartData[i].name] =
              <<"Safe", "Low Risk", "Moderate Risk", "High Risk", "Very High Risk">>
        /\ \A i \in 1..5 :
              riskChartData[i].value = CountLevel(projectSamples, riskChartData[i].name)
        /\ riskChartData[1].value + riskChartData[2].value + riskChartData[3].value
              + riskChartData[4].value + riskChartData[5].value = Len(projectSamples)

\* three samples rendered: two Safe and one Very High Risk
C3_Witness ==
    /\ rendered
    /\ Len(projectSamples) = 3
    /\ riskChartData[1].value = 2
    /\ riskChartData[5].value = 1

\* C4 as stated: every one of the five entries carries its level's canonical
\* colour, entries with count zero included.
C4_EveryEntryCanonicalColor ==
    rendered =>
        \A i \in 1..Len(riskChartData) :
            riskChartData[i].color = CanonicalColor(riskChartData[i].name)

\* C4 amended: an entry whose count is at least 1 carries its level's canonical
\* colour; an entry whose count is zero carries '#666'.
C4_ColorCanonicalOrFallback ==
    rendered =>
        \A i \in 1..Len(riskChartData) :
            riskChartData[i].color =
                IF CountLevel(projectSamples, riskChartData[i].name) > 0
                THEN CanonicalColor(riskChartData[i].name)
                ELSE "#666"

\* a render with a High Risk sample and no Safe sample: one colour of each kind
C4_Witness ==
    /\ rendered
    /\ riskChartData[4].value > 0 /\ riskChartData[4].color = "#EA580C"
    /\ riskChartData[1].value = 0 /\ riskChartData[1].color = "#666"

MetalsOf(ps) == {ps[i].metal : i \in 1..Len(ps)}
CountMetal(ps, metal) == Cardinality({i \in 1..Len(ps) : ps[i].metal = metal})
\* the sum, in list order, of the indices of the first n samples that are of metal
RECURSIVE SumOfMetal(_, _, _)
SumOfMetal(ps, metal, n) ==
    IF n = 0 THEN Num(0)
    ELSE IF ps[n].metal = metal
         THEN JsAdd(SumOfMetal(ps, metal, n - 1), calculateHMPI(ps[n]))
         ELSE SumOfMetal(ps, metal, n - 1)
RECURSIVE SumCounts(_, _)
SumCounts(data, n) == IF n = 0 THEN 0 ELSE SumCounts(data, n - 1) + data[n].count

\* C5: the metal chart data has exactly one entry per distinct metal among the
\* samples; its count is the number of samples of that metal (at least 1), its
\* avgHMPI their indices' sum divided by the count; the counts sum to the
\* number of samples.
C5_MetalChartPerMetal ==
    rendered =>
        /\ {metalChartData[i].name : i \in 1..Len(metalChartData)} = MetalsOf(projectSamples)
        /\ Len(metalChartData) = Cardinality(MetalsOf(projectSamples))
        /\ \A i \in 1..Len(metalChartData) :
              LET e == metalChartData[i]
              IN /\ e.count = CountMetal(projectSamples, e.name)
                 /\ e.count >= 1
                 /\ e.avgHMPI = JsDiv(SumOfMetal(projectSamples, e.name, Len(projectSamples)),
                                      Num(e.count))
        /\ SumCounts(metalChartData, Len(metalChartData)) = Len(projectSamples)

\* two metals rendered, one of them with two samples of indices 100 and 50
C5_Witness ==
    /\ rendered
    /\ Len(projectSamples) = 3
    /\ Len(metalChartData) = 2
    /\ \E i \in 1..2 : metalChartData[i].count = 2 /\ metalChartData[i].avgHMPI = Num(75)

Pair(sample) == [date |-> sample.date, hmpi |-> calculateHMPI(sample)]
AtTime(list, t) == SelectSeq(list, LAMBDA e : DateGetTime(e.date) = t)

\* C6: the time series is a permutation of the samples projected to (date, hmpi),
\* ascending by parsed date, samples of equal parsed date in input order.
C6_TimeSeriesStableAscending ==
    rendered =>
        LET pairs == [i \in 1..Len(projectSamples) |-> Pair(projectSamples[i])]
        IN /\ Len(timeSeriesData) = Len(projectSamples)
           /\ \A i, j \in 1..Len(timeSeriesData) :
                 i < j => DateGetTime(timeSeriesData[i].date)
                            <= DateGetTime(timeSeriesData[j].date)
           /\ \A k \in 1..Len(pairs) :
                 AtTime(timeSeriesData, DateGetTime(pairs[k].date))
                    = AtTime(pairs, DateGetTime(pairs[k].date))

\* an input out of date order, with two different samples of one instant
C6_Witness ==
    /\ rendered
    /\ Len(projectSamples) = 3
    /\ DateGetTime(projectSamples[1].date) > DateGetTime(projectSamples[2].date)
    /\ DateGetTime(projectSamples[2].date) = DateGetTime(projectSamples[3].date)
    /\ projectSamples[2].date # projectSamples[3].date
    /\ timeSeriesData[1] = Pair(projectSamples[2])
    /\ timeSeriesData[2] = Pair(projectSamples[3])

\* what a fetch-all function must return for the store's answer resp
FetchAllResult(resp) == IF resp.error THEN Array(<<>>) ELSE resp.data

\* load i runs from its samples answer to its end in this step
Finishes(i) ==
    /\ i \in DOMAIN loads
    /\ loads[i].pc = "awaitSamples"
    /\ loads'[i].pc = "done"

\* C7: a fetch-all function returns the empty list when the store answers with
\* an error and exactly the store's rows otherwise; so a load whose projects
\* fetch failed ends, like one whose rows hold no project of the requested id,
\* with project unset, loading false and the "Project Not Found" screen.
C7_FetchAllDegradesToEmpty ==
    [][/\ \A i \in DOMAIN loads' :
            /\ loads'[i].pc # "awaitProjects" =>
                  /\ loads'[i].allProjects = FetchAllResult(loads'[i].projResp)
                  /\ ~loads'[i].allProjects.null
            /\ loads'[i].pc = "done" =>
                  /\ loads'[i].allSamples = FetchAllResult(loads'[i].sampResp)
                  /\ ~loads'[i].allSamples.null
       /\ lastFetch'.table # "" =>
            /\ lastFetch'.result = FetchAllResult(lastFetch'.resp)
            /\ ~lastFetch'.result.null
       /\ \A i \in DOMAIN loads :
            (/\ Finishes(i)
             /\ mounted
             /\ \/ loads[i].projResp.error
                \/ \A k \in 1..Len(loads[i].projResp.data.rows) :
                      loads[i].projResp.data.rows[k].id # loads[i].pid)
            => /\ project' = Undefined
               /\ loading' = FALSE
               /\ Screen' = "notFound"
      ]_vars

\* the load of a project the store holds has ended after a failed projects
\* fetch: the view shows "Project Not Found"
C7_Witness ==
    /\ mounted
    /\ Len(loads) = 1
    /\ loads[1].pc = "done"
    /\ loads[1].pid = "p1"
    /\ loads[1].projResp.error
    /\ loads[1].allProjects = Array(<<>>)
    /\ ~loading
    /\ Screen = "notFound"

\* C9 as stated: the samples request is issued without waiting for the projects
\* response: while a load's projects request is in flight, so is its samples
\* request.
C9_FetchesInParallel ==
    \A i \in DOMAIN loads :
        Request(i, "projects") \in inflight => Request(i, "samples") \in inflight

\* C9 amended: loadData fetches projects and samples one after the other: the
\* samples request of a load is issued only once its projects request has been
\* answered, so the two are never in flight together; and the view leaves the
\* loading state only in a step in which a load, both fetches answered, ends.
C9_FetchesInSequence ==
    [][/\ \A i \in DOMAIN loads' :
            /\ ~(Request(i, "projects") \in inflight' /\ Request(i, "samples") \in inflight')
            /\ Request(i, "samples") \in inflight' => loads'[i].pc = "awaitSamples"
            /\ Request(i, "projects") \in inflight' <=> loads'[i].pc = "awaitProjects"
       /\ (loading /\ ~loading') =>
            \E i \in DOMAIN loads :
                /\ Finishes(i)
                /\ Request(i, "projects") \notin inflight
                /\ Request(i, "samples") \in inflight /\ Request(i, "samples") \notin inflight'
      ]_vars

\* a load has its samples request in flight, its projects request answered
C9_Witness ==
    /\ Len(loads) = 1
    /\ loading
    /\ loads[1].pc = "awaitSamples"
    /\ ~loads[1].projResp.error
    /\ inflight = {Request(1, "samples")}

\* C10: a load that is outstanding is never cancelled: whatever happens to the
\* view (a projectId change, a newer load, an unmount) its request stays in
\* flight until it is answered, and when it ends on a mounted view it sets
\* project, projectSamples and loading from its own projectId, also when that
\* is no longer the current one.
C10_LoadsNeverCancelled ==
    [][\A i \in DOMAIN loads :
          /\ loads[i].pc # "done" =>
                /\ i \in DOMAIN loads'
                /\ loads'[i].pid = loads[i].pid
                /\ \/ \E r \in inflight' : r.load = i
                   \/ Finishes(i)
          /\ (Finishes(i) /\ mounted) =>
                /\ project' = FindProject(loads'[i].allProjects.rows, loads[i].pid)
                /\ projectSamples' = FilterSamples(loads'[i].allSamples.rows, loads[i].pid)
                /\ loading' = FALSE
      ]_vars

\* the late answer of an earlier load has overwritten the result of the load
\* of the current projectId: loading is false and the project and samples held
\* are those of the earlier projectId
C10_Witness ==
    /\ mounted
    /\ ~loading
    /\ Len(loads) = 2
    /\ loads[1].pc = "done" /\ loads[2].pc = "done"
    /\ loads[2].pid = projectId
    /\ loads[1].pid # projectId
    /\ FindProject(loads[2].allProjects.rows, projectId).kind = "project"
    /\ project.kind = "project"
    /\ project.id = loads[1].pid
    /\ projectSamples # <<>>
    /\ \A k \in 1..Len(projectSamples) : projectSamples[k].projectId = loads[1].pid

\* C8: under any interleaving of acknowledgeAlert calls an alert's acknowledged
\* flag never goes back from true to false; a call the store carries out sets
\* the flag of the alert with its id and changes nothing else, in particular
\* no alert of another id; it returns without an error, also when the alert
\* was acknowledged already.
C8_AcknowledgeMonotoneAndLocal ==
    [][/\ \A a \in AlertIds : alerts[a].acknowledged => alerts'[a].acknowledged
       /\ \A c \in DOMAIN ackCalls :
            /\ (ackCalls[c].pc = "sent" /\ ackCalls'[c].pc = "answered"
                    /\ ~ackCalls'[c].resp.error) =>
                  \A a \in AlertIds :
                      alerts'[a] = IF alerts[a].id = ackCalls[c].alertId
                                   THEN [alerts[a] EXCEPT !.acknowledged = TRUE]
                                   ELSE alerts[a]
            /\ ackCalls'[c].pc = "threw" => ackCalls'[c].resp.error
      ]_vars

\* two calls on the same alert were in flight together and both returned; the
\* alert is acknowledged and the other alert is untouched
C8_Witness ==
    /\ Len(ackCalls) = 2
    /\ ackCalls[1].alertId = "a1" /\ ackCalls[2].alertId = "a1"
    /\ ackCalls[1].pc = "returned" /\ ackCalls[2].pc = "returned"
    /\ alerts["a1"].acknowledged
    /\ ~alerts["a2"].acknowledged

====
